---- MODULE Spec2Model ----
(***************************************************************************)
(* Model of minerva (src/src/main.rs): a mock of the Athena JSON protocol. *)
(*                                                                         *)
(* root() dispatches one HTTP request on its X-Amz-Target header.          *)
(* process_query() spawns one task per query on the worker thread that     *)
(* handled the start request; the task advances the query's state in an    *)
(* evmap (lock-free read handle, write handle behind a std::sync::Mutex).  *)
(*                                                                         *)
(* Threads: each HTTP worker is one thread running a current-thread        *)
(* executor.  At most one task or handler runs on a worker at a time and   *)
(* it runs until it awaits something pending, returns, or blocks the       *)
(* thread.  Steps of different workers interleave freely.                  *)
(*                                                                         *)
(* Time: age[i] is the time elapsed since task i created its interval,     *)
(* deadline[i] the (relative) deadline of its next tick.  An interval's    *)
(* first tick is due at creation, the next ones every Period after it.     *)
(***************************************************************************)
EXTENDS Integers, Sequences, FiniteSets, TLC

\* ------------------------------------------------------------- bounds ----
MaxQueries == 3       \* start requests served in one run
NumWorkers == 2       \* HTTP worker threads
MaxRequests == 3      \* requests handled in one run

\* process_interval (lines 77-80, 88).  Time is counted in units of it: every
\* deadline is a multiple of the interval and ages are only ever compared
\* with deadlines, and timers due at the same time fire in any order.
Period == 1

IdSpace == 1..(MaxQueries + 1)   \* identifiers; one more than can be minted
Workers == 1..NumWorkers
NoWorker == NumWorkers + 1        \* no worker
MaxAge == 2 * Period             \* the last deadline a task waits for

NoOne == MaxQueries + 2          \* no task / no identifier (outside IdSpace)
NoInput == NoOne                 \* the request has no well-formed JSON body

\* ------------------------------------------------- protocol constants ----
QUEUED == "QUEUED"
RUNNING == "RUNNING"
SUCCEEDED == "SUCCEEDED"
None == "None"
States == {QUEUED, RUNNING, SUCCEEDED}

OPERATION_NAME_START_QUERY_EXECUTION == "AmazonAthena.StartQueryExecution"
OPERATION_NAME_GET_QUERY_EXECUTION == "AmazonAthena.GetQueryExecution"
OPERATION_NAME_GET_QUERY_RESULTS == "AmazonAthena.GetQueryResults"
MissingHeader == "<no X-Amz-Target>"
OtherTarget == "amazonathena.startqueryexecution"

Targets == {MissingHeader, OPERATION_NAME_START_QUERY_EXECUTION,
            OPERATION_NAME_GET_QUERY_EXECUTION,
            OPERATION_NAME_GET_QUERY_RESULTS, OtherTarget}
Requests == [target : Targets, input : IdSpace \cup {NoInput}]

VARIABLES
  minted,      \* identifiers returned by start so far
  worker,      \* worker[i]: the worker whose executor owns task i (0: none)
  pc,          \* pc[i]: position of task i in process_query's async block
  query,       \* query[i]: the task's local `query` (None or a state string)
  iter,        \* iter[i]: loop iterations task i has begun
  age,         \* age[i]: time since task i created its interval (saturating)
  deadline,    \* deadline[i]: deadline of the interval's next tick
  written,     \* write side of the evmap: id -> bag of values (a sequence)
  published,   \* read side of the evmap: what queries_r sees
  lockHolder,  \* task holding the Mutex around the write handle
  cur,         \* cur[w]: task occupying worker w's thread
  waiting,     \* the worker the caller's pending request was routed to
  served,      \* requests handled so far
  resp,        \* the last request handled and its response
  lastRead,    \* lastRead[i]: what the caller's last get-status read of i found
  pubHist,     \* pubHist[i]: successive published values of i
  pubIter      \* pubIter[i]: the loop iteration that published each of them

vars == <<minted, worker, pc, query, iter, age, deadline, written, published,
          lockHolder, cur, waiting, served, resp, lastRead, pubHist, pubIter>>

\* -------------------------------------------------------------- evmap ----
\* A value-bag is a sequence; an absent key is the empty bag.
EvInsert(m, k, v) == [m EXCEPT ![k] = Append(@, v)]

\* EvEmpty that purges the whole map instead of one key.
EvEmptyAll(m, k) == [j \in DOMAIN m |-> <<>>]

\* EvEmpty forgotten: the insert then adds to the bag.
EvEmptyKept(m, k) == m

EvEmpty(m, k) == [m EXCEPT ![k] = <<>>]

\* get_one: no record, or some value of the bag.
EvGetOne(m, k) ==
  IF m[k] = <<>> THEN {None} ELSE {m[k][n] : n \in 1..Len(m[k])}

\* refresh that publishes nothing.
EvRefreshStale(w, r) == r

\* refresh: the read side becomes the write side.
EvRefresh(w, r) == w

\* NextState with RUNNING inserted for a missing record: QUEUED is skipped.
NextStateSkip(q) ==
  CASE q = None -> RUNNING
    [] q = QUEUED -> RUNNING
    [] q = RUNNING -> SUCCEEDED
    [] OTHER -> q

\* NextState with QUEUED inserted again after RUNNING.
NextStateRegress(q) ==
  CASE q = None -> QUEUED
    [] q = QUEUED -> RUNNING
    [] q = RUNNING -> QUEUED
    [] OTHER -> q

\* The value the loop inserts after reading q (lines 114-137).
NextState(q) ==
  CASE q = None -> QUEUED
    [] q = QUEUED -> RUNNING
    [] q = RUNNING -> SUCCEEDED
    [] OTHER -> q

\* QueryExecutionState::from(&str).as_str()
StateFrom(s) == IF s \in States THEN s ELSE "UNKNOWN"

NoResp ==
  [target |-> "", status |-> "", id |-> NoOne, state |-> "", prev |-> None]

Init ==
  /\ minted = {}
  /\ worker = [i \in IdSpace |-> 0]
  /\ pc = [i \in IdSpace |-> "none"]
  /\ query = [i \in IdSpace |-> None]
  /\ iter = [i \in IdSpace |-> 0]
  /\ age = [i \in IdSpace |-> 0]
  /\ deadline = [i \in IdSpace |-> 0]
  /\ written = [i \in IdSpace |-> <<>>]
  /\ published = [i \in IdSpace |-> <<>>]
  /\ lockHolder = NoOne
  /\ cur = [w \in Workers |-> NoOne]
  /\ waiting = NoWorker
  /\ served = 0
  /\ resp = NoResp
  /\ lastRead = [i \in IdSpace |-> None]
  /\ pubHist = [i \in IdSpace |-> <<>>]
  /\ pubIter = [i \in IdSpace |-> <<>>]

\* The response; for a get-status read, prev is what the caller's previous
\* read of the same identifier found.
Respond(req, status, id, state) ==
  resp' = [target |-> req.target, status |-> status, id |-> id,
           state |-> state,
           prev |-> IF req.target = OPERATION_NAME_GET_QUERY_EXECUTION
                       /\ id \in IdSpace
                    THEN lastRead[id] ELSE None]

\* ------------------------------------------------------ process_query ----
\* process_query that registers the QUEUED record itself before spawning.
process_query_eager(id, w) ==
  /\ pc' = [pc EXCEPT ![id] = "spawned"]
  /\ worker' = [worker EXCEPT ![id] = w]
  /\ written' = EvInsert(written, id, QUEUED)
  /\ published' = written'
  /\ UNCHANGED <<query, iter, age, deadline, lockHolder, pubHist, pubIter>>

\* Lines 103-109 and 143: the call only spawns the task on the caller's
\* executor; nothing of the async block runs before the caller returns.
process_query(id, w) ==
  /\ pc' = [pc EXCEPT ![id] = "spawned"]
  /\ worker' = [worker EXCEPT ![id] = w]
  /\ UNCHANGED <<query, iter, age, deadline, written, published, lockHolder,
                 pubHist, pubIter>>

Running(i) == worker[i] \in Workers /\ cur[worker[i]] = i

\* First poll of the task: time::interval(process_interval) (line 110).
PollFirst(i) ==
  /\ pc[i] = "spawned"
  /\ cur[worker[i]] = NoOne
  /\ cur' = [cur EXCEPT ![worker[i]] = i]
  /\ age' = [age EXCEPT ![i] = 0]
  /\ deadline' = [deadline EXCEPT ![i] = 0]
  /\ pc' = [pc EXCEPT ![i] = "read"]
  /\ UNCHANGED <<minted, worker, query, iter, written, published, lockHolder,
                 waiting, served, resp, lastRead, pubHist, pubIter>>

\* Line 112: let query = queries_r.get_one(&query_execution_id)
ReadState(i) ==
  /\ pc[i] = "read"
  /\ Running(i)
  /\ \E q \in EvGetOne(published, i) : query' = [query EXCEPT ![i] = q]
  /\ iter' = [iter EXCEPT ![i] = @ + 1]
  /\ pc' = [pc EXCEPT ![i] = "lock"]
  /\ UNCHANGED <<minted, worker, age, deadline, written, published,
                 lockHolder, cur, waiting, served, resp, lastRead, pubHist, pubIter>>

\* Lock without mutual exclusion: the write handle is taken whoever holds it.
LockUnchecked(i) ==
  /\ pc[i] = "lock"
  /\ Running(i)
  /\ lockHolder' = i
  /\ pc' = [pc EXCEPT ![i] = "match"]
  /\ UNCHANGED <<minted, worker, query, iter, age, deadline, written,
                 published, cur, waiting, served, resp, lastRead, pubHist, pubIter>>

\* Line 113: queries_w.lock().unwrap(), the mutex being free.  While another
\* thread's task holds it the calling thread is blocked: no step is enabled
\* and cur[worker[i]] stays i.
Lock(i) ==
  /\ pc[i] = "lock"
  /\ Running(i)
  /\ lockHolder = NoOne
  /\ lockHolder' = i
  /\ pc' = [pc EXCEPT ![i] = "match"]
  /\ UNCHANGED <<minted, worker, query, iter, age, deadline, written,
                 published, cur, waiting, served, resp, lastRead, pubHist, pubIter>>

\* Line 113 when the holder is a task suspended on this very thread.
\* std::sync::Mutex leaves locking again on the owning thread unspecified:
\* the call never returns, it deadlocks the thread or it panics.
LockSameThread(i) ==
  /\ pc[i] = "lock"
  /\ Running(i)
  /\ lockHolder # NoOne
  /\ worker[lockHolder] = worker[i]
  /\ \/ /\ pc' = [pc EXCEPT ![i] = "deadlocked"]
        /\ cur' = cur
     \/ /\ pc' = [pc EXCEPT ![i] = "panicked"]
        /\ cur' = [cur EXCEPT ![worker[i]] = NoOne]
  /\ UNCHANGED <<minted, worker, query, iter, age, deadline, written,
                 published, lockHolder, waiting, served, resp, lastRead, pubHist,
                 pubIter>>

\* Match that removes the record of a finished query instead of returning.
MatchClear(i) ==
  /\ pc[i] = "match"
  /\ Running(i)
  /\ pc' = [pc EXCEPT ![i] =
              IF query[i] \in {None, QUEUED, RUNNING}
              THEN "insert" ELSE "refresh"]
  /\ written' = IF query[i] \in {QUEUED, RUNNING, SUCCEEDED}
                THEN EvEmpty(written, i) ELSE written
  /\ UNCHANGED <<lockHolder, cur>>
  /\ UNCHANGED <<minted, worker, query, iter, age, deadline, published,
                 waiting, served, resp, lastRead, pubHist, pubIter>>

\* Lines 114-132: the match on `query`.
\*   Some(QUEUED), Some(RUNNING): queries_w.empty(id), the insert follows;
\*   Some(SUCCEEDED): return, which drops the guard and ends the task;
\*   None: the insert follows;  any other string: nothing is written.
Match(i) ==
  /\ pc[i] = "match"
  /\ Running(i)
  /\ IF query[i] = SUCCEEDED
     THEN /\ pc' = [pc EXCEPT ![i] = "done"]
          /\ lockHolder' = NoOne
          /\ cur' = [cur EXCEPT ![worker[i]] = NoOne]
          /\ written' = written
     ELSE /\ pc' = [pc EXCEPT ![i] =
                      IF query[i] \in {None, QUEUED, RUNNING}
                      THEN "insert" ELSE "refresh"]
          /\ written' = IF query[i] \in {QUEUED, RUNNING}
                        THEN EvEmpty(written, i) ELSE written
          /\ UNCHANGED <<lockHolder, cur>>
  /\ UNCHANGED <<minted, worker, query, iter, age, deadline, published,
                 waiting, served, resp, lastRead, pubHist, pubIter>>

\* Lines 118-121, 124-127, 133-136: queries_w.insert(id, next state)
Insert(i) ==
  /\ pc[i] = "insert"
  /\ Running(i)
  /\ written' = EvInsert(written, i, NextState(query[i]))
  /\ pc' = [pc EXCEPT ![i] = "refresh"]
  /\ UNCHANGED <<minted, worker, query, iter, age, deadline, published,
                 lockHolder, cur, waiting, served, resp, lastRead, pubHist, pubIter>>

\* Line 139: queries_w.refresh()
Refresh(i) ==
  /\ pc[i] = "refresh"
  /\ Running(i)
  /\ published' = EvRefresh(written, published)
  /\ pubHist' = [k \in IdSpace |->
                   IF published'[k] # published[k]
                   THEN Append(pubHist[k], published'[k]) ELSE pubHist[k]]
  /\ pubIter' = [k \in IdSpace |->
                   IF published'[k] # published[k]
                   THEN Append(pubIter[k], iter[k]) ELSE pubIter[k]]
  /\ pc' = [pc EXCEPT ![i] = "tick"]
  /\ UNCHANGED <<minted, worker, query, iter, age, deadline, written,
                 lockHolder, cur, waiting, served, resp, lastRead>>

\* Whether interval.tick() is ready when polled: its deadline has come.
TickReady(i) == age[i] >= deadline[i]

\* Line 141: interval.tick().await, first poll.  A tick that is due
\* completes at once: the next deadline is one period later, the loop body
\* ends (dropping the guard taken at line 113) and the loop goes on.
\* Otherwise the task is suspended, with the guard alive.
Tick(i) ==
  /\ pc[i] = "tick"
  /\ Running(i)
  /\ IF TickReady(i)
     THEN /\ deadline' = [deadline EXCEPT ![i] = @ + Period]
          /\ lockHolder' = NoOne
          /\ pc' = [pc EXCEPT ![i] = "read"]
          /\ cur' = cur
     ELSE /\ pc' = [pc EXCEPT ![i] = "sleeping"]
          /\ cur' = [cur EXCEPT ![worker[i]] = NoOne]
          /\ UNCHANGED <<deadline, lockHolder>>
  /\ UNCHANGED <<minted, worker, query, iter, age, written, published,
                 waiting, served, resp, lastRead, pubHist, pubIter>>

\* Lines 141-142: the timer fires, the executor polls the task again, the
\* tick completes and the loop body ends, dropping the guard.
Wake(i) ==
  /\ pc[i] = "sleeping"
  /\ TickReady(i)
  /\ cur[worker[i]] = NoOne
  /\ cur' = [cur EXCEPT ![worker[i]] = i]
  /\ deadline' = [deadline EXCEPT ![i] = @ + Period]
  /\ lockHolder' = NoOne
  /\ pc' = [pc EXCEPT ![i] = "read"]
  /\ UNCHANGED <<minted, worker, query, iter, age, written, published,
                 waiting, served, resp, lastRead, pubHist, pubIter>>

\* Time passes for every task that has an interval.
Live(i) == pc[i] \notin {"none", "spawned", "done", "panicked", "deadlocked"}

TimePass ==
  /\ \E i \in IdSpace : Live(i) /\ age[i] < MaxAge
  /\ age' = [i \in IdSpace |->
               IF Live(i) /\ age[i] < MaxAge THEN age[i] + 1 ELSE age[i]]
  /\ UNCHANGED <<minted, worker, pc, query, iter, deadline, written,
                 published, lockHolder, cur, waiting, served, resp, lastRead,
                 pubHist, pubIter>>

\* --------------------------------------------------------------- root ----
\* MissingTarget that looks the body's identifier up before it checks the
\* header.
MissingTargetAfterBody(req, w) ==
  /\ req.target = MissingHeader
  /\ Respond(req, "400", NoOne, "")
  /\ IF req.input = NoInput
     THEN UNCHANGED lastRead
     ELSE \E q \in EvGetOne(published, req.input) :
            lastRead' = [lastRead EXCEPT ![req.input] = q]
  /\ UNCHANGED <<minted, worker, pc, query, iter, age, deadline, written,
                 published, lockHolder, pubHist, pubIter>>

\* Lines 24-32: no X-Amz-Target header.
MissingTarget(req, w) ==
  /\ req.target = MissingHeader
  /\ Respond(req, "400", NoOne, "")
  /\ UNCHANGED <<minted, worker, pc, query, iter, age, deadline, written,
                 published, lockHolder, lastRead, pubHist, pubIter>>

\* Line 35: Uuid::new_v4() is an identifier not handed out before; which one
\* it is does not matter, the model takes the smallest.
NewV4 ==
  {id \in IdSpace \ minted : \A j \in IdSpace \ minted : id <= j}

\* Lines 34-47.
StartQueryExecution(req, w) ==
  /\ req.target = OPERATION_NAME_START_QUERY_EXECUTION
  /\ Cardinality(minted) < MaxQueries
  /\ \E id \in NewV4 :
       /\ minted' = minted \cup {id}
       /\ process_query(id, w)
       /\ Respond(req, "200", id, "")
  /\ UNCHANGED lastRead

\* GetQueryExecution that answers a request without input with a default
\* state instead of rejecting it.
GetQueryExecutionDefault(req, w) ==
  /\ req.target = OPERATION_NAME_GET_QUERY_EXECUTION
  /\ IF req.input = NoInput
     THEN /\ Respond(req, "200", NoOne, QUEUED)
          /\ UNCHANGED lastRead
     ELSE \E q \in EvGetOne(published, req.input) :
            /\ lastRead' = [lastRead EXCEPT ![req.input] = q]
            /\ IF q = None
               THEN Respond(req, "panic", req.input, "")
               ELSE Respond(req, "200", req.input, StateFrom(q))
  /\ UNCHANGED <<minted, worker, pc, query, iter, age, deadline, written,
                 published, lockHolder, pubHist, pubIter>>

\* Lines 48-64.  get_one(..).unwrap() panics when there is no record: the
\* request gets no HTTP response.
GetQueryExecution(req, w) ==
  /\ req.target = OPERATION_NAME_GET_QUERY_EXECUTION
  /\ IF req.input = NoInput
     THEN /\ Respond(req, "400", NoOne, "")
          /\ UNCHANGED lastRead
     ELSE \E q \in EvGetOne(published, req.input) :
            /\ lastRead' = [lastRead EXCEPT ![req.input] = q]
            /\ IF q = None
               THEN Respond(req, "panic", req.input, "")
               ELSE Respond(req, "200", req.input, StateFrom(q))
  /\ UNCHANGED <<minted, worker, pc, query, iter, age, deadline, written,
                 published, lockHolder, pubHist, pubIter>>

\* GetQueryResults that answers with an empty success.
GetQueryResultsOk(req, w) ==
  /\ req.target = OPERATION_NAME_GET_QUERY_RESULTS
  /\ Respond(req, "200", NoOne, "")
  /\ UNCHANGED <<minted, worker, pc, query, iter, age, deadline, written,
                 published, lockHolder, lastRead, pubHist, pubIter>>

\* Lines 65-66.
GetQueryResults(req, w) ==
  /\ req.target = OPERATION_NAME_GET_QUERY_RESULTS
  /\ Respond(req, "501", NoOne, "")
  /\ UNCHANGED <<minted, worker, pc, query, iter, age, deadline, written,
                 published, lockHolder, lastRead, pubHist, pubIter>>

\* UnexpectedTarget with the operation name matched without regard to case:
\* the lower-case start name starts a query.
UnexpectedTargetAnyCase(req, w) ==
  /\ req.target \notin {MissingHeader, OPERATION_NAME_START_QUERY_EXECUTION,
                        OPERATION_NAME_GET_QUERY_EXECUTION,
                        OPERATION_NAME_GET_QUERY_RESULTS}
  /\ Cardinality(minted) < MaxQueries
  /\ \E id \in NewV4 :
       /\ minted' = minted \cup {id}
       /\ process_query(id, w)
       /\ Respond(req, "200", id, "")
  /\ UNCHANGED lastRead

\* Lines 67-69.
UnexpectedTarget(req, w) ==
  /\ req.target \notin {MissingHeader, OPERATION_NAME_START_QUERY_EXECUTION,
                        OPERATION_NAME_GET_QUERY_EXECUTION,
                        OPERATION_NAME_GET_QUERY_RESULTS}
  /\ Respond(req, "400", NoOne, "")
  /\ UNCHANGED <<minted, worker, pc, query, iter, age, deadline, written,
                 published, lockHolder, lastRead, pubHist, pubIter>>

root(req, w) ==
  \/ MissingTarget(req, w)
  \/ StartQueryExecution(req, w)
  \/ GetQueryExecution(req, w)
  \/ GetQueryResults(req, w)
  \/ UnexpectedTarget(req, w)

\* The caller, having the answer to its last request, sends the next one,
\* which is routed to worker w: any worker that owns a task, or else (the
\* workers that own none being interchangeable) the first that owns none.
Accept(w) ==
  /\ waiting = NoWorker
  /\ served < MaxRequests
  /\ \A v \in Workers : v < w => \E i \in IdSpace : worker[i] = v
  /\ waiting' = w
  /\ UNCHANGED <<minted, worker, pc, query, iter, age, deadline, written,
                 published, lockHolder, cur, served, resp, lastRead,
                 pubHist, pubIter>>

\* Worker w runs root() on the request; the handler has no await, so it
\* runs from start to end once the thread is free.
Handle(w) ==
  /\ waiting = w
  /\ cur[w] = NoOne
  /\ \E req \in Requests : root(req, w)
  /\ waiting' = NoWorker
  /\ served' = served + 1
  /\ cur' = cur

Advance(i) ==
  \/ PollFirst(i)
  \/ ReadState(i)
  \/ Lock(i)
  \/ LockSameThread(i)
  \/ Match(i)
  \/ Insert(i)
  \/ Refresh(i)
  \/ Tick(i)
  \/ Wake(i)

Next ==
  \/ \E w \in Workers : Accept(w)
  \/ \E w \in Workers : Handle(w)
  \/ \E i \in IdSpace : Advance(i)
  \/ TimePass

Spec == Init /\ [][Next]_vars

\* The executor polls every ready task, a free mutex is taken, timers fire
\* and time passes; requests need not arrive.
FairSpec ==
  /\ Spec
  /\ \A i \in IdSpace : WF_vars(Advance(i))
  /\ \A w \in Workers : WF_vars(Handle(w))
  /\ WF_vars(TimePass)

\* ============================================================= claims ====
Rank(v) ==
  CASE v = None -> 0
    [] v = QUEUED -> 1
    [] v = RUNNING -> 2
    [] v = SUCCEEDED -> 3
    [] OTHER -> 4

Lifecycle == <<QUEUED, RUNNING, SUCCEEDED>>

IsPrefix(s, t) ==
  /\ Len(s) <= Len(t)
  /\ \A n \in 1..Len(s) : s[n] = t[n]

\* C1: for every identifier the values published are, in order, a prefix of
\* QUEUED, RUNNING, SUCCEEDED, each a single value; the n-th of them is
\* published by the n-th loop iteration of the identifier's task; and the
\* write side holds nothing, the published value or its successor.
C1_LifecycleOrder ==
  \A i \in IdSpace :
    /\ IsPrefix(pubHist[i], <<<<QUEUED>>, <<RUNNING>>, <<SUCCEEDED>>>>)
    /\ pubIter[i] = [n \in 1..Len(pubHist[i]) |-> n]
    /\ published[i] = IF pubHist[i] = <<>> THEN <<>>
                      ELSE pubHist[i][Len(pubHist[i])]
    /\ written[i] # <<>> =>
         /\ Len(pubHist[i]) < 3 =>
              written[i] \in {published[i], <<Lifecycle[Len(pubHist[i]) + 1]>>}
         /\ Len(pubHist[i]) = 3 => written[i] = published[i]

C1_Witness ==
  \E i \in IdSpace :
    /\ pc[i] = "done"
    /\ pubHist[i] = <<<<QUEUED>>, <<RUNNING>>, <<SUCCEEDED>>>>
    /\ pubIter[i] = <<1, 2, 3>>

\* C2: every spawned task eventually publishes SUCCEEDED and terminates.
C2_RunsToCompletion ==
  \A i \in IdSpace :
    (pc[i] = "spawned") ~> (pc[i] = "done" /\ published[i] = <<SUCCEEDED>>)

\* C3: a get-status request for an identifier without a published record is
\* answered with a not-found client error.
C3_UnknownIdIsNotFound ==
  \A i \in IdSpace :
    ( /\ resp.target = OPERATION_NAME_GET_QUERY_EXECUTION
      /\ resp.id = i
      /\ lastRead[i] = None )
    => resp.status \in {"400", "404"}

\* C4: RUNNING and SUCCEEDED are not published, and not returned by a
\* get-status read, before one period has passed since the task began.
C4_QueuedDuringFirstPeriod ==
  \A i \in IdSpace :
    age[i] < Period =>
      /\ published[i] \in {<<>>, <<QUEUED>>}
      /\ lastRead[i] \in {None, QUEUED}

\* C5: successive publishes of an identifier are one period apart: the n-th
\* is not made before n - 1 periods have passed, so the state is RUNNING
\* during the second period and SUCCEEDED only after two.
C5_OnePeriodBetweenWrites ==
  \A i \in IdSpace :
    /\ age[i] >= (Len(pubHist[i]) - 1) * Period
    /\ published[i] = <<SUCCEEDED>> => age[i] >= 2 * Period

\* C6: a published SUCCEEDED stays SUCCEEDED and a published record never
\* becomes absent.
C6_SucceededIsTerminal ==
  [][\A i \in IdSpace :
       /\ published[i] = <<SUCCEEDED>> => published'[i] = <<SUCCEEDED>>
       /\ published[i] # <<>> => published'[i] # <<>>]_vars

C6_Witness ==
  \E i, j \in IdSpace :
    /\ pc[i] = "done"
    /\ published[i] = <<SUCCEEDED>>
    /\ pc[j] = "tick"
    /\ published[j] = <<RUNNING>>

\* C7: every get-status read of an identifier returns no record or one of
\* the three states, and successive reads of it never go back.
C7_ReadsNeverRegress ==
  /\ \A i \in IdSpace : lastRead[i] \in States \cup {None}
  /\ (resp.target = OPERATION_NAME_GET_QUERY_EXECUTION /\ resp.id \in IdSpace)
       => Rank(resp.prev) <= Rank(lastRead[resp.id])

C7_Witness ==
  /\ resp.target = OPERATION_NAME_GET_QUERY_EXECUTION
  /\ resp.id \in IdSpace
  /\ resp.prev = RUNNING
  /\ lastRead[resp.id] = SUCCEEDED

\* Worker w's thread is inside Mutex::lock(), the mutex being held by a task
\* suspended at its tick.
BlockedOnSleeper(w) ==
  /\ cur[w] # NoOne
  /\ pc[cur[w]] \in {"lock", "deadlocked"}
  /\ lockHolder # NoOne
  /\ pc[lockHolder] = "sleeping"

\* C8: a request accepted by a worker never waits for a task: the worker's
\* thread is never held inside lock() while the request awaits its handler.
C8_HandlersNeverBlock ==
  \A w \in Workers : waiting = w => ~BlockedOnSleeper(w)

\* C9: a start request is answered 200 with a fresh identifier, spawns the
\* task of that identifier and no other, and does so without any step of a
\* task: no store write, no publish, no lock.
C9_StartReturnsAtOnce ==
  [][(served' = served + 1 /\
      resp'.target = OPERATION_NAME_START_QUERY_EXECUTION) =>
       /\ resp'.status = "200"
       /\ resp'.id \in IdSpace \ minted
       /\ minted' = minted \cup {resp'.id}
       /\ pc' = [pc EXCEPT ![resp'.id] = "spawned"]
       /\ iter'[resp'.id] = 0
       /\ written' = written
       /\ published' = published
       /\ lockHolder' = lockHolder]_vars

C9_Witness ==
  /\ resp.target = OPERATION_NAME_START_QUERY_EXECUTION
  /\ resp.status = "200"
  /\ pc[resp.id] = "spawned"
  /\ lockHolder # NoOne
  /\ pc[lockHolder] = "sleeping"

\* C10: the published view holds for each identifier no record or exactly
\* one state, and a record once published is never seen empty, whatever
\* the write side holds between the empty and the insert.
C10_PublishedIsOneValue ==
  \A i \in IdSpace :
    /\ Len(published[i]) <= 1
    /\ \A n \in 1..Len(published[i]) : published[i][n] \in States
    /\ pubHist[i] # <<>> => published[i] # <<>>
    /\ \A n \in 1..Len(pubHist[i]) : Len(pubHist[i][n]) = 1

C10_Witness ==
  \E i \in IdSpace :
    /\ pc[i] = "insert"
    /\ written[i] = <<>>
    /\ published[i] = <<QUEUED>>

\* What a request that is rejected or not implemented must leave alone: the
\* store, the caller's reads, the set of tasks and their positions, the lock.
Untouched ==
  UNCHANGED <<minted, worker, pc, query, iter, written, published,
              lockHolder, lastRead, pubHist, pubIter>>

\* C11: a request without the X-Amz-Target header is answered 400, whatever
\* its body, and reads nothing, changes no record and spawns no task.
C11_MissingHeaderRejected ==
  [][(served' = served + 1 /\ resp'.target = MissingHeader) =>
       /\ resp'.status = "400"
       /\ resp'.id = NoOne
       /\ resp'.state = ""
       /\ Untouched]_vars

C11_Witness ==
  /\ resp.target = MissingHeader
  /\ resp.status = "400"
  /\ \E i \in IdSpace : published[i] = <<QUEUED>> /\ lastRead[i] = None

\* C12: a get-status request without a well-formed QueryExecutionId is
\* answered 400 without the store being read, whatever the store holds; a
\* request with an identifier that has no record is not answered that way.
C12_MissingInputRejected ==
  /\ [][(served' = served + 1 /\
         resp'.target = OPERATION_NAME_GET_QUERY_EXECUTION /\
         resp'.id = NoOne) =>
          /\ resp'.status = "400"
          /\ resp'.state = ""
          /\ Untouched]_vars
  /\ [](\A i \in IdSpace :
          (resp.target = OPERATION_NAME_GET_QUERY_EXECUTION /\ resp.id = i
           /\ lastRead[i] = None) => resp.status # "400")

C12_Witness ==
  /\ resp.target = OPERATION_NAME_GET_QUERY_EXECUTION
  /\ resp.id = NoOne
  /\ resp.status = "400"
  /\ \E i \in IdSpace : published[i] = <<RUNNING>>

\* C13: a request whose target is none of the three operation names, a
\* differently cased one included, is answered 400 and touches nothing.
C13_UnknownTargetRejected ==
  [][(served' = served + 1 /\ resp'.target = OtherTarget) =>
       /\ resp'.status = "400"
       /\ resp'.id = NoOne
       /\ Untouched]_vars

C13_Witness ==
  /\ resp.target = OtherTarget
  /\ resp.status = "400"
  /\ Cardinality(minted) = 1
  /\ \E i \in minted : pc[i] = "sleeping"

\* C14: a GetQueryResults request is answered 501, whatever its body and
\* the store, and touches nothing.
C14_ResultsNotImplemented ==
  [][(served' = served + 1 /\
      resp'.target = OPERATION_NAME_GET_QUERY_RESULTS) =>
       /\ resp'.status = "501"
       /\ resp'.id = NoOne
       /\ Untouched]_vars

C14_Witness ==
  /\ resp.target = OPERATION_NAME_GET_QUERY_RESULTS
  /\ resp.status = "501"
  /\ \E i \in IdSpace : published[i] = <<SUCCEEDED>>

\* C16: a record changes, on the write side or the published side, only by
\* a step of the task that owns its identifier, made while that task runs
\* between its lock and its tick; no request handler changes any record.
C16_SingleWriterPerKey ==
  [][\A k \in IdSpace :
       (written'[k] # written[k] \/ published'[k] # published[k]) =>
         /\ served' = served
         /\ Running(k)
         /\ pc[k] \in {"match", "insert", "refresh"}
         /\ pc'[k] # pc[k]]_vars

C16_Witness ==
  \E k, j \in IdSpace :
    /\ k # j
    /\ pc[k] = "refresh"
    /\ written[k] # published[k]
    /\ published[j] # <<>>
    /\ pc[j] \notin {"done", "panicked", "deadlocked"}

\* Task i is between lock() and the end of the loop body.
InCritical(i) == pc[i] \in {"match", "insert", "refresh", "tick", "sleeping"}

\* C17: at most one task is between its lock and the end of its loop body,
\* it is the holder of the mutex, every write and every refresh is a step of
\* the holder, and a write not yet published belongs to it: a refresh never
\* publishes another task's empty without its insert.
C17_WritePathSerialized ==
  /\ [](Cardinality({i \in IdSpace : InCritical(i)}) <= 1)
  /\ [](\A i \in IdSpace : InCritical(i) <=> lockHolder = i)
  /\ [][(written' # written \/ published' # published) =>
          /\ lockHolder # NoOne
          /\ lockHolder' = lockHolder
          /\ pc'[lockHolder] # pc[lockHolder]]_vars
  /\ [](\A k \in IdSpace :
          written[k] # published[k] =>
            lockHolder = k /\ pc[k] \in {"insert", "refresh"})

C17_Witness ==
  \E i, j \in IdSpace :
    /\ lockHolder = i
    /\ pc[i] = "insert"
    /\ written[i] = <<>>
    /\ pc[j] = "lock"
    /\ Running(j)

\* C18: no task holds the mutex while suspended at its tick, and a task at
\* lock() never finds it held by a sleeping task.
C18_LockNotHeldAsleep ==
  /\ \A i \in IdSpace : pc[i] = "sleeping" => lockHolder # i
  /\ \A i \in IdSpace :
       (pc[i] = "lock" /\ lockHolder # NoOne) => pc[lockHolder] # "sleeping"

\* C19: a task suspended at its tick or terminated has published what it
\* last wrote, and what a task reads at the top of the loop is what it
\* last wrote.
C19_WritesPublishedBeforeSleep ==
  \A i \in IdSpace :
    /\ pc[i] \in {"tick", "sleeping", "done"} => published[i] = written[i]
    /\ pc[i] \in {"lock", "match"} =>
         written[i] = IF query[i] = None THEN <<>> ELSE <<query[i]>>

C19_Witness ==
  \E i \in IdSpace :
    /\ pc[i] = "sleeping"
    /\ iter[i] = 3
    /\ written[i] = <<SUCCEEDED>>
    /\ published[i] = <<SUCCEEDED>>

\* C20: a task that has read SUCCEEDED ends in that iteration: it reaches
\* the end of the task, its step from the match writes and publishes
\* nothing and leaves the mutex free, it never sleeps again, and a
\* terminated task stays terminated and does not hold the mutex.
C20_SucceededTerminates ==
  /\ \A i \in IdSpace :
       (query[i] = SUCCEEDED /\ pc[i] \in {"lock", "match"}) ~> (pc[i] = "done")
  /\ [][\A i \in IdSpace :
          /\ (pc[i] = "match" /\ query[i] = SUCCEEDED /\ pc'[i] # pc[i]) =>
               /\ pc'[i] = "done"
               /\ written' = written
               /\ published' = published
               /\ lockHolder' = NoOne
          /\ pc[i] = "done" => pc'[i] = "done"]_vars
  /\ [](\A i \in IdSpace :
          /\ pc[i] = "done" => lockHolder # i
          /\ query[i] = SUCCEEDED => pc[i] \notin {"tick", "sleeping"})

====
